---- MODULE Spec2Model ----
(***************************************************************************)
(* A model of src/server.js: the scoring function scoreEvents and the      *)
(* HTTP request handler around it.                                          *)
(*                                                                          *)
(* JavaScript values are modelled by tagged records, so that a field that   *)
(* is absent, a list, a non-list object or a bare string stay distinct:     *)
(*   a list-like value   [shape, ids]   shape in undefined/array/object/    *)
(*                                      string; ids the elements (the       *)
(*                                      characters, for a string)           *)
(*   a number            [nan, v]       nan TRUE for NaN; v is the value    *)
(*                                      multiplied by Scale, so that the    *)
(*                                      powers of 0.5 stay integers         *)
(***************************************************************************)
EXTENDS Integers, Sequences, FiniteSets, TLC

VARIABLES
    events,     \* scoreEvents: the argument `events`
    limit,      \* scoreEvents: the argument `requestedItems`
    out,        \* scoreEvents: what the call produced (a value or a throw)
    pc,         \* scoreEvents: "call" before the call, "returned" after it
    now,        \* the clock, Math.floor(Date.now() / 1000)
    conn,       \* server: one record per connection (request in progress)
    alive       \* server: FALSE once an uncaught exception ended the process

vars == <<events, limit, out, pc, now, conn, alive>>

----------------------------------------------------------------------------
(* Bounds of the model *)

MaxEvents == 2      \* longest event list given to scoreEvents
MaxLimit == 2       \* largest requestedItems given to scoreEvents
MaxAge == 1         \* timestamps and the clock range over 0..MaxAge half-lives
MaxConns == 2       \* connections open at the same time

----------------------------------------------------------------------------
(* Configuration: src/server.js lines 7-17 *)

EVENT_WEIGHTS ==
    [ProductAddToCart |-> 10,
     ProductDetailsView |-> 5,
     Purchase |-> -100,
     MyCustomEvent |-> 15,
     MyCustomWishlistEvent |-> 20]

DEFAULT_WEIGHT == 1

RECENCY_HALF_LIFE_DAYS == 7

SecondsPerDay == 86400

HalfLifeSeconds == RECENCY_HALF_LIFE_DAYS * SecondsPerDay

\* EVENT_WEIGHTS is an object literal: a lookup of a name it does not own
\* goes on to Object.prototype, whose properties are functions or objects.
ObjectPrototypeKeys ==
    {"constructor", "toString", "toLocaleString", "valueOf", "hasOwnProperty",
     "isPrototypeOf", "propertyIsEnumerable", "__proto__"}

----------------------------------------------------------------------------
(* Numbers *)

RECURSIVE Pow2(_)
Pow2(n) == IF n <= 0 THEN 1 ELSE 2 * Pow2(n - 1)

\* Scores are kept multiplied by Scale: 0.5^h * Scale is an integer for
\* every age h <= MaxAge half-lives.
Scale == Pow2(MaxAge)

NaN == [nan |-> TRUE, v |-> 0]
Num(x) == [nan |-> FALSE, v |-> x]

NumAdd(a, b) == IF a.nan \/ b.nan THEN NaN ELSE Num(a.v + b.v)
NumSub(a, b) == IF a.nan \/ b.nan THEN NaN ELSE Num(a.v - b.v)

\* a * b, where a is a plain (unscaled) number and b is scaled
NumMul(a, b) == IF a.nan \/ b.nan THEN NaN ELSE Num(a.v * b.v)

\* JavaScript truthiness of a number: 0 and NaN are falsy
Truthy(a) == ~a.nan /\ a.v # 0

----------------------------------------------------------------------------
(* Values of the event fields *)

Undefined == [shape |-> "undefined", ids |-> <<>>]
Arr(s) == [shape |-> "array", ids |-> s]
Obj == [shape |-> "object", ids |-> <<>>]
Str(s) == [shape |-> "string", ids |-> s]

NoData == [shape |-> "undefined", products |-> Undefined, id |-> ""]
Data(products, id) == [shape |-> "object", products |-> products, id |-> id]

\* event.timestamp is undefined
NoTimestamp == 0 - 1

Ev(name, ts, productIds, data) ==
    [name |-> name, timestamp |-> ts, productIds |-> productIds, data |-> data]

----------------------------------------------------------------------------
(* scoreEvents: src/server.js lines 19-51 *)

Thrown == [threw |-> TRUE, ranked |-> <<>>]

Range(s) == {s[i] : i \in DOMAIN s}

\* ExtractIds with `||` passing over an empty list too
ExtractIds_SkipEmpty(event) ==
    IF event.productIds.shape # "undefined" /\ event.productIds # Arr(<<>>)
    THEN [threw |-> FALSE, val |-> event.productIds]
    ELSE IF event.data.shape = "undefined"
    THEN [threw |-> FALSE, val |-> Arr(<<>>)]
    ELSE IF event.data.products.shape = "array" /\ event.data.products.ids # <<>>
    THEN [threw |-> FALSE, val |-> Arr(event.data.products.ids)]
    ELSE IF event.data.products.shape \notin {"undefined", "array"}
    THEN [threw |-> TRUE, val |-> Undefined]
    ELSE IF event.data.id # ""
    THEN [threw |-> FALSE, val |-> Arr(<<event.data.id>>)]
    ELSE [threw |-> FALSE, val |-> Arr(<<>>)]

\* Lines 26-28:
\*   event.productIds || event.data?.products?.map(p => p.id)
\*                    || (event.data?.id ? [event.data.id] : [])
\* `||` takes the first TRUTHY operand: an empty array and a non-list object
\* are truthy. `?.` guards only null/undefined: a products value that is
\* not an array has no map method, and calling it throws a TypeError.
ExtractIds(event) ==
    IF event.productIds.shape # "undefined"
    THEN [threw |-> FALSE, val |-> event.productIds]
    ELSE IF event.data.shape = "undefined"
    THEN [threw |-> FALSE, val |-> Arr(<<>>)]
    ELSE IF event.data.products.shape = "array"
    THEN [threw |-> FALSE, val |-> Arr(event.data.products.ids)]
    ELSE IF event.data.products.shape # "undefined"
    THEN [threw |-> TRUE, val |-> Undefined]
    ELSE IF event.data.id # ""
    THEN [threw |-> FALSE, val |-> Arr(<<event.data.id>>)]
    ELSE [threw |-> FALSE, val |-> Arr(<<>>)]

\* Line 35: EVENT_WEIGHTS[event.name] ?? DEFAULT_WEIGHT. `??` replaces only
\* null/undefined, so an inherited Object.prototype member is kept, and
\* multiplying it by a number (line 40) gives NaN.
Weight(name) ==
    IF name \in DOMAIN EVENT_WEIGHTS THEN Num(EVENT_WEIGHTS[name])
    ELSE IF name \in ObjectPrototypeKeys THEN NaN
    ELSE Num(DEFAULT_WEIGHT)

\* Lines 36-37: Math.pow(0.5, ((now - timestamp) / 86400) / 7), times Scale.
\* Timestamps and the clock are whole multiples of the half-life.
Recency(ts, clock) ==
    IF ts = NoTimestamp THEN NaN
    ELSE Num(Pow2(MaxAge - ((clock - ts) \div HalfLifeSeconds)))

\* The keys of `scores` that are canonical array indices, with their value;
\* -1 for every other key. (An object enumerates its integer-like keys
\* first, in ascending numeric order, then its other string keys in
\* insertion order.)
ArrayIndex(id) ==
    CASE id = "2" -> 2
      [] id = "10" -> 10
      [] OTHER -> 0 - 1

HasKey(scores, id) == \E k \in DOMAIN scores : scores[k].id = id

\* scores[id], or undefined (falsy, like 0 and NaN)
GetScore(scores, id) ==
    IF HasKey(scores, id)
    THEN scores[CHOOSE k \in DOMAIN scores : scores[k].id = id].score
    ELSE Num(0)

\* Where a new key goes in the enumeration order of the object
InsertPos(scores, id) ==
    IF ArrayIndex(id) < 0 THEN Len(scores) + 1
    ELSE LET later == {k \in DOMAIN scores :
                          \/ ArrayIndex(scores[k].id) < 0
                          \/ ArrayIndex(scores[k].id) > ArrayIndex(id)}
         IN IF later = {} THEN Len(scores) + 1
            ELSE CHOOSE k \in later : \A j \in later : k <= j

\* scores[id] = value; `scores` is the sequence Object.entries would give
PutScore(scores, id, value) ==
    IF HasKey(scores, id)
    THEN [k \in DOMAIN scores |->
            IF scores[k].id = id THEN [id |-> id, score |-> value] ELSE scores[k]]
    ELSE LET p == InsertPos(scores, id)
         IN SubSeq(scores, 1, p - 1) \o <<[id |-> id, score |-> value]>>
              \o SubSeq(scores, p, Len(scores))

\* Lines 39-41: for (const id of ids) scores[id] = (scores[id] || 0) + w * r
RECURSIVE AddAll(_, _, _, _)
AddAll(scores, ids, k, contribution) ==
    IF k > Len(ids) THEN scores
    ELSE LET old == GetScore(scores, ids[k])
             base == IF Truthy(old) THEN old ELSE Num(0)
         IN AddAll(PutScore(scores, ids[k], NumAdd(base, contribution)),
                   ids, k + 1, contribution)

\* Lines 24-42: the pass over the events. ids.forEach exists only on an
\* array; for-of also iterates the characters of a string, and throws on
\* any other object.
RECURSIVE Accumulate(_, _, _, _, _)
Accumulate(evs, i, scores, purchased, clock) ==
    IF i > Len(evs)
    THEN [threw |-> FALSE, scores |-> scores, purchased |-> purchased]
    ELSE LET event == evs[i]
             x == ExtractIds(event)
         IN IF x.threw
            THEN [threw |-> TRUE, scores |-> <<>>, purchased |-> {}]
            ELSE IF event.name = "Purchase"
            THEN IF x.val.shape # "array"
                 THEN [threw |-> TRUE, scores |-> <<>>, purchased |-> {}]
                 ELSE Accumulate(evs, i + 1, scores,
                                 purchased \cup Range(x.val.ids), clock)
            ELSE IF x.val.shape = "object"
            THEN [threw |-> TRUE, scores |-> <<>>, purchased |-> {}]
            ELSE Accumulate(evs, i + 1,
                            AddAll(scores, x.val.ids, 1,
                                   NumMul(Weight(event.name),
                                          Recency(event.timestamp, clock))),
                            purchased, clock)

\* FilterPurchased with the filter of line 45 left out: the Purchase weight
\* alone would then have to keep a purchased id out
FilterPurchased_Keep(entries, purchased) == entries

\* Line 45: .filter(([id]) => !purchased.has(id))
RECURSIVE FilterPurchased(_, _)
FilterPurchased(entries, purchased) ==
    IF entries = <<>> THEN <<>>
    ELSE IF Head(entries).id \in purchased
    THEN FilterPurchased(Tail(entries), purchased)
    ELSE <<Head(entries)>> \o FilterPurchased(Tail(entries), purchased)

\* Line 46: the comparator (a, b) => b[1] - a[1], as sort reads it:
\* -1, 0 or 1, a NaN result counting as 0
Compare(a, b) ==
    LET d == NumSub(b.score, a.score)
    IN IF d.nan THEN 0 ELSE IF d.v < 0 THEN 0 - 1 ELSE IF d.v > 0 THEN 1 ELSE 0

Reverse(s) == [k \in DOMAIN s |-> s[Len(s) + 1 - k]]

\* Array.prototype.sort on a short array (V8): the leading run is found
\* and, when strictly descending under the comparator, reversed ...
RECURSIVE RunLength(_, _, _)
RunLength(a, k, descending) ==
    IF k > Len(a) THEN Len(a)
    ELSE LET order == Compare(a[k], a[k - 1])
         IN IF descending /\ order >= 0 THEN k - 1
            ELSE IF ~descending /\ order < 0 THEN k - 1
            ELSE RunLength(a, k + 1, descending)

\* ... and every later element is put in place by binary insertion.
RECURSIVE BinarySearch(_, _, _, _)
BinarySearch(a, pivot, left, right) ==
    IF left >= right THEN left
    ELSE LET mid == left + ((right - left) \div 2)
         IN IF Compare(pivot, a[mid]) < 0
            THEN BinarySearch(a, pivot, left, mid)
            ELSE BinarySearch(a, pivot, mid + 1, right)

RECURSIVE BinaryInsertionSort(_, _)
BinaryInsertionSort(a, start) ==
    IF start > Len(a) THEN a
    ELSE LET pivot == a[start]
             left == BinarySearch(a, pivot, 1, start)
         IN BinaryInsertionSort(
                SubSeq(a, 1, left - 1) \o <<pivot>> \o SubSeq(a, left, start - 1)
                  \o SubSeq(a, start + 1, Len(a)),
                start + 1)

\* Line 46: .sort((a, b) => b[1] - a[1])
SortByScore(a) ==
    IF Len(a) < 2 THEN a
    ELSE LET descending == Compare(a[2], a[1]) < 0
             run == RunLength(a, 3, descending)
             b == IF descending
                  THEN Reverse(SubSeq(a, 1, run)) \o SubSeq(a, run + 1, Len(a))
                  ELSE a
         IN BinaryInsertionSort(b, run + 1)

\* Line 47: .slice(0, end). A negative end counts from the end of the array.
Slice(a, end) ==
    LET final == IF end < 0
                 THEN (IF Len(a) + end < 0 THEN 0 ELSE Len(a) + end)
                 ELSE (IF end > Len(a) THEN Len(a) ELSE end)
    IN SubSeq(a, 1, final)

\* Lines 44-50
Rank(scores, purchased, requestedItems) ==
    Slice(SortByScore(FilterPurchased(scores, purchased)), requestedItems)

\* scoreEvents(events, requestedItems), with the clock reading of line 22
scoreEvents(evs, requestedItems, clock) ==
    LET acc == Accumulate(evs, 1, <<>>, {}, clock)
    IN IF acc.threw THEN Thrown
       ELSE [threw |-> FALSE,
             ranked |-> Rank(acc.scores, acc.purchased, requestedItems)]

----------------------------------------------------------------------------
(* Inputs of scoreEvents *)

Timestamps == {k * HalfLifeSeconds : k \in 0..MaxAge}

Limits == (0 - 1)..MaxLimit

\* Events of the documented shape: a name, a timestamp, an explicit list
ScoringEvents ==
    {Ev(n, t, Arr(p), NoData) :
        n \in {"Purchase", "ProductAddToCart", "ProductDetailsView"},
        t \in Timestamps,
        p \in {<<"p1">>, <<"10", "2">>}}
    \cup {Ev("ProductDetailsView", t, Arr(<<"p2", "p1">>), NoData) : t \in Timestamps}
    \cup {Ev(n, t, Arr(<<"p1">>), NoData) :
            n \in {"Unmapped", "constructor"}, t \in Timestamps}
    \cup {Ev("ProductDetailsView", NoTimestamp, Arr(<<"p1">>), NoData)}

\* The shapes the three id sources can take, on one event
SourceShapes ==
    {<<Arr(<<>>), Data(Arr(<<"p1">>), "")>>,
     <<Arr(<<>>), Data(Undefined, "p1")>>,
     <<Undefined, Data(Arr(<<"p1">>), "2")>>,
     <<Undefined, Data(Arr(<<>>), "p1")>>,
     <<Undefined, Data(Undefined, "p1")>>,
     <<Undefined, Data(Undefined, "")>>,
     <<Undefined, NoData>>,
     <<Obj, NoData>>,
     <<Undefined, Data(Obj, "p1")>>,
     <<Str(<<"2">>), NoData>>}

ShapeEvents ==
    {Ev(n, 0, s[1], s[2]) : n \in {"Purchase", "ProductDetailsView"}, s \in SourceShapes}

Events == ScoringEvents \cup ShapeEvents

EventLists == UNION {[1..n -> Events] : n \in 0..MaxEvents}

----------------------------------------------------------------------------
(* Specification SpecScore: one call of scoreEvents on any input *)

NoConn ==
    [phase |-> "idle", url |-> [path |-> "", query |-> [present |-> FALSE, chars |-> <<>>]],
     requestedItems |-> 0, pending |-> <<>>, body |-> <<>>, at |-> 0,
     calls |-> 0, status |-> 0, ctype |-> "", text |-> "", result |-> <<>>]

NotCalled == [threw |-> FALSE, ranked |-> <<>>]

InitScore ==
    /\ events \in EventLists
    /\ limit \in Limits
    /\ now \in Timestamps
    /\ out = NotCalled
    /\ pc = "call"
    /\ conn = [c \in 1..MaxConns |-> NoConn]
    /\ alive = TRUE

Call ==
    /\ pc = "call"
    /\ out' = scoreEvents(events, limit, now)
    /\ pc' = "returned"
    /\ UNCHANGED <<events, limit, now, conn, alive>>

NextScore == Call

SpecScore == InitScore /\ [][NextScore]_vars

----------------------------------------------------------------------------
(* The request handler: src/server.js lines 53-143 *)

\* A request body is a sequence of tokens of JSON text; an event object is
\* one token, standing for the text of that object.
EventLiteral ==
    ("#view" :> Ev("ProductDetailsView", 0, Arr(<<"p1">>), NoData))
    @@ ("#cart" :> Ev("ProductAddToCart", 0, Arr(<<"10", "2">>), NoData))
    @@ ("#buy" :> Ev("Purchase", 0, Arr(<<"p1">>), NoData))
    @@ ("#custom" :> Ev("MyCustomEvent", NoTimestamp, Arr(<<"p1">>), NoData))
    @@ ("#wish" :> Ev("MyCustomWishlistEvent", 0, Arr(<<"p2", "p1">>), NoData))
    @@ ("#shape" :> Ev("ProductDetailsView", 0, Obj, NoData))

\* What an element of the events array is to the code: a number has no
\* name, no timestamp and no id source
NoFields == Ev("undefined", NoTimestamp, Undefined, NoData)

Elem(kind, ev) == [kind |-> kind, ev |-> ev]

EventsVal(kind, elems) == [kind |-> kind, elems |-> elems]

Payload(kind, evs) == [kind |-> kind, events |-> evs]

SyntaxError == [ok |-> FALSE, payload |-> Payload("undefined", EventsVal("undefined", <<>>))]

Parsed(kind, evs) == [ok |-> TRUE, payload |-> Payload(kind, evs)]

Prepend(e, r) == [ok |-> r.ok, elems |-> IF r.ok THEN e \o r.elems ELSE <<>>]

\* elem ("," elem)*
RECURSIVE ParseElems(_)
ParseElems(t) ==
    IF t = <<>> THEN [ok |-> FALSE, elems |-> <<>>]
    ELSE LET e == IF t[1] = "null" THEN <<Elem("null", NoFields)>>
                  ELSE IF t[1] = "7" THEN <<Elem("number", NoFields)>>
                  ELSE IF t[1] \in DOMAIN EventLiteral
                  THEN <<Elem("object", EventLiteral[t[1]])>>
                  ELSE <<>>
         IN IF e = <<>> THEN [ok |-> FALSE, elems |-> <<>>]
            ELSE IF Len(t) = 1 THEN [ok |-> TRUE, elems |-> e]
            ELSE IF t[2] # "," THEN [ok |-> FALSE, elems |-> <<>>]
            ELSE Prepend(e, ParseElems(SubSeq(t, 3, Len(t))))

\* The value of the "events" member
ParseEventsValue(t) ==
    IF t = <<"null">> THEN [ok |-> TRUE, val |-> EventsVal("null", <<>>)]
    ELSE IF t = <<"7">> THEN [ok |-> TRUE, val |-> EventsVal("number", <<>>)]
    ELSE IF t = <<"\"s\"">> THEN [ok |-> TRUE, val |-> EventsVal("string", <<>>)]
    ELSE IF t = <<"{", "}">> THEN [ok |-> TRUE, val |-> EventsVal("object", <<>>)]
    ELSE IF t = <<"[", "]">> THEN [ok |-> TRUE, val |-> EventsVal("array", <<>>)]
    ELSE IF Len(t) > 2 /\ t[1] = "[" /\ t[Len(t)] = "]"
    THEN LET r == ParseElems(SubSeq(t, 2, Len(t) - 1))
         IN [ok |-> r.ok, val |-> EventsVal("array", r.elems)]
    ELSE [ok |-> FALSE, val |-> EventsVal("undefined", <<>>)]

\* Line 78: JSON.parse(body)
ParseJSON(t) ==
    IF t = <<"null">> THEN Parsed("null", EventsVal("undefined", <<>>))
    ELSE IF t = <<"7">> THEN Parsed("number", EventsVal("undefined", <<>>))
    ELSE IF t = <<"\"s\"">> THEN Parsed("string", EventsVal("undefined", <<>>))
    ELSE IF t = <<"true">> THEN Parsed("boolean", EventsVal("undefined", <<>>))
    ELSE IF t = <<"[", "]">> THEN Parsed("array", EventsVal("undefined", <<>>))
    ELSE IF t = <<"{", "}">> THEN Parsed("object", EventsVal("undefined", <<>>))
    ELSE IF Len(t) > 3 /\ t[1] = "{" /\ t[2] = "\"events\":" /\ t[Len(t)] = "}"
    THEN LET r == ParseEventsValue(SubSeq(t, 3, Len(t) - 1))
         IN IF r.ok THEN Parsed("object", r.val) ELSE SyntaxError
    ELSE SyntaxError

\* ParseBody reading the events with payload?.events: null is then a
\* payload without events
ParseBody_NullTolerant(body) ==
    IF ~ParseJSON(body).ok
    THEN [failed |-> TRUE, events |-> EventsVal("undefined", <<>>)]
    ELSE IF ParseJSON(body).payload.events.kind \in {"undefined", "null"}
    THEN [failed |-> FALSE, events |-> EventsVal("array", <<>>)]
    ELSE [failed |-> FALSE, events |-> ParseJSON(body).payload.events]

\* Lines 76-85: the try block. JSON.parse throws on a text that is not JSON,
\* and reading .events of null throws too; both land in the catch. Every
\* other value has an events property, undefined unless the payload is an
\* object, and `|| []` replaces a falsy one by the empty array.
ParseBody(body) ==
    LET p == ParseJSON(body)
    IN IF ~p.ok \/ p.payload.kind = "null"
       THEN [failed |-> TRUE, events |-> EventsVal("undefined", <<>>)]
       ELSE IF p.payload.events.kind \in {"undefined", "null"}
       THEN [failed |-> FALSE, events |-> EventsVal("array", <<>>)]
       ELSE [failed |-> FALSE, events |-> p.payload.events]

\* Lines 88-127: the logging. for-of (line 96) throws on a value that is
\* not iterable and e.name on a null element; a string has no filter (line
\* 104); new Date(NaN).toISOString() (lines 108, 121) throws a RangeError.
LoggingThrows(evs) ==
    \/ evs.kind \in {"number", "object", "string"}
    \/ \E k \in DOMAIN evs.elems :
          \/ evs.elems[k].kind = "null"
          \/ /\ evs.elems[k].kind = "object"
             /\ evs.elems[k].ev.name \in {"MyCustomEvent", "MyCustomWishlistEvent"}
             /\ evs.elems[k].ev.timestamp = NoTimestamp

Ids(ranked) == [k \in DOMAIN ranked |-> ranked[k].id]

Crash(calls) == [crashed |-> TRUE, status |-> 0, result |-> <<>>, calls |-> calls]

Respond(status, result, calls) ==
    [crashed |-> FALSE, status |-> status, result |-> result, calls |-> calls]

\* Lines 73-142: the 'end' callback. `calls` counts the calls of scoreEvents.
EndCallback(body, requestedItems, clock) ==
    LET parsed == ParseBody(body)
    IN IF parsed.failed THEN Respond(400, <<>>, 0)
       ELSE IF LoggingThrows(parsed.events) THEN Crash(0)
       ELSE LET r == scoreEvents([k \in DOMAIN parsed.events.elems |->
                                     parsed.events.elems[k].ev],
                                 requestedItems, clock)
            IN IF r.threw THEN Crash(1) ELSE Respond(200, Ids(r.ranked), 1)

----------------------------------------------------------------------------
(* The query string: src/server.js lines 68-69 *)

DefaultRequestedItems == 3

Digits == {"0", "1", "2", "3", "4", "5", "6", "7", "8", "9"}

DigitValue(ch) ==
    CASE ch = "0" -> 0 [] ch = "1" -> 1 [] ch = "2" -> 2 [] ch = "3" -> 3
      [] ch = "4" -> 4 [] ch = "5" -> 5 [] ch = "6" -> 6 [] ch = "7" -> 7
      [] ch = "8" -> 8 [] ch = "9" -> 9

\* The longest prefix of digits
RECURSIVE DigitPrefix(_)
DigitPrefix(s) ==
    IF s = <<>> \/ Head(s) \notin Digits THEN <<>>
    ELSE <<Head(s)>> \o DigitPrefix(Tail(s))

RECURSIVE DecimalValue(_)
DecimalValue(s) ==
    IF s = <<>> THEN 0
    ELSE 10 * DecimalValue(SubSeq(s, 1, Len(s) - 1)) + DigitValue(s[Len(s)])

\* parseInt(parsed.query.requestedItems): an optional sign, then the digits
\* up to the first character that is not one; NaN when there is no digit,
\* and for undefined (an absent parameter)
ParseInt(q) ==
    IF ~q.present THEN NaN
    ELSE LET negative == q.chars # <<>> /\ Head(q.chars) = "-"
             digits == DigitPrefix(IF negative THEN Tail(q.chars) ELSE q.chars)
         IN IF digits = <<>> THEN NaN
            ELSE Num((IF negative THEN 0 - 1 ELSE 1) * DecimalValue(digits))

\* Line 69: parseInt(...) || 3
RequestedItems(q) ==
    IF Truthy(ParseInt(q)) THEN ParseInt(q).v ELSE DefaultRequestedItems

Absent == [present |-> FALSE, chars |-> <<>>]
Query(chars) == [present |-> TRUE, chars |-> chars]

Url(path, q) == [path |-> path, query |-> q]

\* Lines 53-72: the request handler, up to the registration of the callbacks
HandleRequest(method, url, text) ==
    IF method = "GET" /\ url = Url("/health", Absent)
    THEN [NoConn EXCEPT !.phase = "responded", !.url = url, !.status = 200,
                        !.ctype = "text/plain", !.text = "OK"]
    ELSE IF method # "POST"
    THEN [NoConn EXCEPT !.phase = "responded", !.url = url, !.status = 405]
    ELSE [NoConn EXCEPT !.phase = "open", !.url = url,
                        !.requestedItems = RequestedItems(url.query),
                        !.pending = text]

----------------------------------------------------------------------------
(* The server as a state machine *)

Init ==
    /\ conn = [c \in 1..MaxConns |-> NoConn]
    /\ alive = TRUE
    /\ now = 0
    /\ events = <<>>
    /\ limit = 0
    /\ out = NotCalled
    /\ pc = "server"

\* A request arrives on a free connection (line 53)
Request(c, methods, urls, texts) ==
    /\ alive
    /\ conn[c].phase = "idle"
    /\ \E method \in methods, url \in urls, text \in texts :
          conn' = [conn EXCEPT ![c] = HandleRequest(method, url, text)]
    /\ UNCHANGED <<alive, now, events, limit, out, pc>>

\* Line 72: a chunk of the body arrives, body += chunk
OnData(c) ==
    /\ alive
    /\ conn[c].phase = "open"
    /\ conn[c].pending # <<>>
    /\ \E k \in 1..Len(conn[c].pending) :
          conn' = [conn EXCEPT
                      ![c].body = @ \o SubSeq(conn[c].pending, 1, k),
                      ![c].pending = SubSeq(@, k + 1, Len(@))]
    /\ UNCHANGED <<alive, now, events, limit, out, pc>>

\* The connection after its 'end' callback ran with outcome r
Ended(k, r, clock) ==
    [k EXCEPT !.phase = IF r.crashed THEN "crashed" ELSE "responded",
              !.at = clock,
              !.calls = r.calls,
              !.status = r.status,
              !.ctype = IF r.crashed THEN "" ELSE "application/json",
              !.result = r.result]

\* Lines 73-142: the body is complete. An exception that leaves the
\* callback is uncaught: the process ends, and no request is answered.
OnEnd(c) ==
    /\ alive
    /\ conn[c].phase = "open"
    /\ conn[c].pending = <<>>
    /\ conn' = [conn EXCEPT ![c] =
                  Ended(@, EndCallback(@.body, @.requestedItems, now), now)]
    /\ alive' = (conn'[c].phase # "crashed")
    /\ UNCHANGED <<now, events, limit, out, pc>>

\* The response is sent; the connection serves the next request
Close(c) ==
    /\ alive
    /\ conn[c].phase = "responded"
    /\ conn' = [conn EXCEPT ![c] = NoConn]
    /\ UNCHANGED <<alive, now, events, limit, out, pc>>

\* Time passes (Date.now(), line 22)
Tick ==
    /\ now < MaxAge * HalfLifeSeconds
    /\ now' = now + HalfLifeSeconds
    /\ UNCHANGED <<conn, alive, events, limit, out, pc>>

Methods == {"GET", "POST", "PUT"}

Queries ==
    {Absent, Query(<<>>), Query(<<"x">>), Query(<<"1">>), Query(<<"0">>),
     Query(<<"5", "x">>), Query(<<"-", "2">>), Query(<<"1", "2">>)}

Urls == {Url(p, q) : p \in {"/health", "/recommend"}, q \in Queries}

Object(evs) == <<"{", "\"events\":">> \o evs \o <<"}">>

Texts ==
    {<<>>, <<"{">>, <<"null">>, <<"7">>, <<"\"s\"">>, <<"true">>, <<"[", "]">>,
     <<"{", "}">>,
     Object(<<"null">>), Object(<<"7">>), Object(<<"\"s\"">>), Object(<<"{", "}">>),
     Object(<<"[", "]">>),
     Object(<<"[", "#view", "]">>),
     Object(<<"[", "#cart", ",", "#wish", "]">>),
     Object(<<"[", "#buy", ",", "#view", "]">>),
     Object(<<"[", "null", "]">>),
     Object(<<"[", "7", "]">>),
     Object(<<"[", "#custom", "]">>),
     Object(<<"[", "#shape", "]">>)}

\* Spec: requests of every kind, one at a time
Next ==
    \/ Request(1, Methods, Urls, Texts)
    \/ OnData(1)
    \/ OnEnd(1)
    \/ Close(1)
    \/ Tick

Spec == Init /\ [][Next]_vars

\* SpecConcurrent: a few kinds of POST request, on MaxConns connections whose
\* callbacks interleave
ConcurrentUrls == {Url("/recommend", Absent), Url("/recommend", Query(<<"1">>))}

ConcurrentTexts ==
    {Object(<<"[", "#cart", ",", "#wish", "]">>), Object(<<"7">>), <<"null">>}

NextConcurrent ==
    \/ \E c \in 1..MaxConns :
          \/ Request(c, {"POST"}, ConcurrentUrls, ConcurrentTexts)
          \/ OnData(c)
          \/ OnEnd(c)
          \/ Close(c)
    \/ Tick

SpecConcurrent == Init /\ [][NextConcurrent]_vars

----------------------------------------------------------------------------
(* Properties of scoreEvents, checked under SpecScore *)

Returned == pc = "returned" /\ ~out.threw

ResultIds == {out.ranked[k].id : k \in DOMAIN out.ranked}

\* The identifiers line 26-28 extracts from an event that does not throw
IdsOf(event) == ExtractIds(event).val.ids

IdsIn(evs, names) ==
    UNION {Range(IdsOf(evs[i])) : i \in {j \in DOMAIN evs : evs[j].name \in names}}

PurchasedIds(evs) == IdsIn(evs, {"Purchase"})

ScoredIds(evs) == IdsIn(evs, {evs[i].name : i \in DOMAIN evs} \ {"Purchase"})

Min(a, b) == IF a < b THEN a ELSE b

\* Event lists of the documented shape: every name is "Purchase", a key of
\* the weight table or a name unknown to JavaScript, every timestamp is a
\* number, and every id source is a list or absent
Documented(evs) ==
    \A i \in DOMAIN evs :
        /\ evs[i].name \notin ObjectPrototypeKeys
        /\ evs[i].timestamp # NoTimestamp
        /\ evs[i].productIds.shape \in {"undefined", "array"}
        /\ evs[i].data.products.shape \in {"undefined", "array"}

\* C1: when scoreEvents returns, no identifier extracted from an event named
\* "Purchase" is in the result, whatever the other events, their weights and
\* their position before or after the Purchase event.
C1_PurchasedExcluded ==
    Returned => ResultIds \cap PurchasedIds(events) = {}

\* C1's case: the id is purchased first and scored afterwards, by an event
\* of positive weight, and the limit leaves room for it.
C1_Witness ==
    /\ Returned
    /\ limit >= 1
    /\ Len(events) = 2
    /\ events[1].name = "Purchase"
    /\ events[2].name = "ProductAddToCart"
    /\ "p1" \in Range(IdsOf(events[1])) \cap Range(IdsOf(events[2]))
    /\ "p1" \notin ResultIds

\* C2: the result has min(limit, number of distinct non-purchased scored
\* ids) entries, and none when limit <= 0.
C2_LengthIsMin ==
    Returned =>
        Len(out.ranked) =
            IF limit <= 0 THEN 0
            ELSE Min(limit, Cardinality(ScoredIds(events) \ PurchasedIds(events)))

\* The place of an id in first-seen order: the first non-Purchase event
\* that names it, then its first position in that event's ids
FirstSeen(evs, id) ==
    LET i == CHOOSE j \in DOMAIN evs :
                /\ evs[j].name # "Purchase" /\ id \in Range(IdsOf(evs[j]))
                /\ \A h \in 1..(j - 1) :
                      evs[h].name = "Purchase" \/ id \notin Range(IdsOf(evs[h]))
        ids == IdsOf(evs[i])
        p == CHOOSE q \in DOMAIN ids :
                ids[q] = id /\ \A h \in 1..(q - 1) : ids[h] # id
    IN <<i, p>>

Earlier(a, b) == a[1] < b[1] \/ (a[1] = b[1] /\ a[2] < b[2])

\* C3: the result is ordered by score descending, and ids of equal score by
\* first-seen order, for every identifier string (stated here for event
\* lists of the documented shape, whose scores are all numbers).
C3_OrderedByScoreThenFirstSeen ==
    Returned /\ Documented(events) =>
        \A k, l \in DOMAIN out.ranked :
            k < l =>
                /\ out.ranked[k].score.v >= out.ranked[l].score.v
                /\ out.ranked[k].score.v = out.ranked[l].score.v =>
                      Earlier(FirstSeen(events, out.ranked[k].id),
                              FirstSeen(events, out.ranked[l].id))

\* C4, as the claim states it: the ids of the first NON-EMPTY source
NonEmptySourceIds(event) ==
    IF event.productIds.ids # <<>> THEN event.productIds.ids
    ELSE IF event.data.products.ids # <<>> THEN event.data.products.ids
    ELSE IF event.data.id # "" THEN <<event.data.id>>
    ELSE <<>>

\* C4, amended: the ids of the first source that is PRESENT; an empty list
\* is present, and so ends the search with no ids
PresentSourceIds(event) ==
    IF event.productIds.shape = "array" THEN event.productIds.ids
    ELSE IF event.data.products.shape = "array" THEN event.data.products.ids
    ELSE IF event.data.id # "" THEN <<event.data.id>>
    ELSE <<>>

\* The ids a result must hold when each event contributes Source(event)
Expected(evs, Source(_)) ==
    UNION {Range(Source(evs[i])) : i \in {j \in DOMAIN evs : evs[j].name # "Purchase"}}
    \ UNION {Range(Source(evs[i])) : i \in {j \in DOMAIN evs : evs[j].name = "Purchase"}}

ResultMatches(Source(_)) ==
    /\ ResultIds \subseteq Expected(events, Source)
    /\ limit >= Cardinality(Expected(events, Source)) =>
          ResultIds = Expected(events, Source)

ListSources(evs) ==
    \A i \in DOMAIN evs :
        /\ evs[i].productIds.shape \in {"undefined", "array"}
        /\ evs[i].data.products.shape \in {"undefined", "array"}

\* C4 (original): the identifiers scoreEvents uses for an event are those
\* of its first non-empty source: productIds, then data.products, then
\* data.id.
C4_FirstNonEmptySource ==
    Returned /\ ListSources(events) => ResultMatches(NonEmptySourceIds)

\* C4 (amended): the identifiers scoreEvents uses for an event are those of
\* its first source that is present: a productIds list (even an empty one),
\* else a data.products list (even an empty one), else a non-empty data.id,
\* else none.
C4_FirstPresentSource ==
    Returned /\ ListSources(events) => ResultMatches(PresentSourceIds)

\* C4's case: the only event has productIds = [] and a non-empty
\* data.products, and the result is empty although the limit leaves room.
C4_Witness ==
    /\ Returned
    /\ limit >= 1
    /\ Len(events) = 1
    /\ events[1].name = "ProductDetailsView"
    /\ events[1].productIds = Arr(<<>>)
    /\ events[1].data.products = Arr(<<"p1">>)
    /\ out.ranked = <<>>

\* C7: scoreEvents returns a sequence for every sequence of event records,
\* malformed ones included; it never raises an error.
C7_NeverThrows ==
    pc = "returned" => ~out.threw

\* The weight the claim gives a name
ClaimedWeight(name) ==
    IF name \in DOMAIN EVENT_WEIGHTS THEN EVENT_WEIGHTS[name] ELSE DEFAULT_WEIGHT

Occurrences(ids, id) == Cardinality({q \in DOMAIN ids : ids[q] = id})

RECURSIVE ClaimedScore(_, _, _, _)
ClaimedScore(evs, i, id, clock) ==
    IF i > Len(evs) THEN 0
    ELSE ClaimedScore(evs, i + 1, id, clock)
         + IF evs[i].name = "Purchase" THEN 0
           ELSE Occurrences(IdsOf(evs[i]), id) * ClaimedWeight(evs[i].name)
                * Pow2(MaxAge - ((clock - evs[i].timestamp) \div HalfLifeSeconds))

\* C9: every returned score is the sum, over the non-Purchase events that
\* name the id, of weight * 0.5^(age / half-life), the weight being the
\* table entry of the event name and 1 for every other name (ages are whole
\* multiples of the half-life; scores are compared multiplied by Scale).
C9_ScoreIsWeightedSum ==
    Returned /\ (\A i \in DOMAIN events : events[i].timestamp # NoTimestamp) =>
        \A k \in DOMAIN out.ranked :
            out.ranked[k].score =
                Num(ClaimedScore(events, 1, out.ranked[k].id, now))

----------------------------------------------------------------------------
(* Properties of the request handler, checked under Spec *)

\* The connections whose 'end' callback has run
Finished(c) ==
    \/ conn[c].phase = "crashed"
    \/ conn[c].phase = "responded" /\ conn[c].ctype = "application/json"

InvalidJSON(body) == ~ParseJSON(body).ok

PayloadKind(body) == ParseJSON(body).payload.kind

Rejected(c) ==
    /\ conn[c].phase = "responded"
    /\ conn[c].status = 400
    /\ conn[c].result = <<>>
    /\ conn[c].calls = 0

\* C5 (original): a POST whose body is invalid JSON, or JSON that is not an
\* object (null, a number, a string, a boolean, an array), is answered 400
\* with body [], and scoreEvents is not called for it.
C5_MalformedBodyRejected ==
    \A c \in 1..MaxConns :
        Finished(c) /\ (InvalidJSON(conn[c].body) \/ PayloadKind(conn[c].body) # "object")
            => Rejected(c)

\* C5 (amended): a POST whose body is invalid JSON or the JSON value null is
\* answered 400 with body [], and scoreEvents is not called for it; a body
\* that is a JSON number, string, boolean or array is taken as a payload
\* without events: scoreEvents is called once, with no events, and the
\* answer is 200 with body [].
C5_ParseFailureRejected ==
    \A c \in 1..MaxConns :
        Finished(c) =>
            /\ InvalidJSON(conn[c].body) \/ PayloadKind(conn[c].body) = "null"
                  => Rejected(c)
            /\ PayloadKind(conn[c].body) \in {"number", "string", "boolean", "array"}
                  => /\ conn[c].phase = "responded"
                     /\ conn[c].status = 200
                     /\ conn[c].result = <<>>
                     /\ conn[c].calls = 1

\* C5's case: the body null, received whole, has been answered 400.
C5_Witness ==
    /\ conn[1].body = <<"null">>
    /\ Rejected(1)

\* C6: no request ends the process: every 'end' callback finishes without
\* an uncaught exception, and the server goes on answering.
C6_NeverCrashes ==
    alive /\ \A c \in 1..MaxConns : conn[c].phase # "crashed"

AllDigits(chars) == chars # <<>> /\ \A k \in DOMAIN chars : chars[k] \in Digits

\* The text is a number: digits, after an optional minus sign
IsNumber(chars) ==
    \/ AllDigits(chars)
    \/ chars # <<>> /\ chars[1] = "-" /\ AllDigits(Tail(chars))

\* C8: the limit given to scoreEvents is N when requestedItems is a positive
\* integer N, 3 when it is absent or not a number, and always positive.
C8_LimitFromQuery ==
    \A c \in 1..MaxConns :
        conn[c].phase = "open" =>
            /\ AllDigits(conn[c].url.query.chars)
               /\ DecimalValue(conn[c].url.query.chars) > 0
                  => conn[c].requestedItems = DecimalValue(conn[c].url.query.chars)
            /\ ~conn[c].url.query.present \/ ~IsNumber(conn[c].url.query.chars)
                  => conn[c].requestedItems = DefaultRequestedItems
            /\ conn[c].requestedItems > 0

----------------------------------------------------------------------------
(* Independence of the requests, checked under SpecConcurrent *)

\* What the request on connection c gets when it is the only request ever
\* made: the outcome of the 'end' callback on its own query string and its
\* own whole body
Alone(c, clock) ==
    EndCallback(conn[c].body \o conn[c].pending,
                RequestedItems(conn[c].url.query), clock)

SameAnswer(c, r) ==
    ~r.crashed /\ conn[c].status = r.status /\ conn[c].result = r.result

\* C10: whatever the interleaving of the callbacks of the open requests,
\* each request gets the response it would get alone, at the same clock
\* reading: the answer it got is that one, and it is not left without the
\* answer it would get alone.
C10_Independent ==
    \A c \in 1..MaxConns :
        /\ conn[c].phase = "responded" /\ conn[c].ctype = "application/json"
              => SameAnswer(c, Alone(c, conn[c].at))
        /\ conn[c].phase = "open" /\ ~alive => Alone(c, now).crashed

====
